---------------------------- MODULE Spec2Model ----------------------------
(***************************************************************************)
(* Planetary time converter (src/app.py): the conversion engine            *)
(* perform_conversion and the per-body encoders/decoders.                  *)
(*                                                                         *)
(* The engine computes in IEEE-754 binary64.  Doubles are modelled exactly *)
(* as sign/magnitude fixed-point numbers (magnitude / 2^FRAC_BITS) held in *)
(* little-endian limbs of LIMB_BITS bits, and every arithmetic step of the *)
(* source is followed by the round-to-nearest-even to 53 significant bits  *)
(* that the hardware performs.  Strings are sequences of one-character     *)
(* strings, so that formatting and parsing are computed, not assumed.      *)
(*                                                                         *)
(* A function body of several statements is written as a chain of local    *)
(* operators, one per group of statements and read from the last one up:   *)
(* each computes the value of its statement once and hands it to the next  *)
(* as a parameter named after the source's variable.                       *)
(***************************************************************************)
EXTENDS Integers, Sequences, FiniteSets, TLC

\* e, once the values listed before it have been computed: the statements of
\* a function body run one after the other
InOrder(first, e) == <<first, e>>[2]

(***************************************************************************)
(* Natural numbers of arbitrary size: little-endian limbs, no high zeros.  *)
(***************************************************************************)
LIMB_BITS == 15
BASE == 32768
MANT_BITS == 53
FRAC_BITS == 100

Pow2(k) == 2 ^ k

RECURSIVE Norm(_)
Norm(a) == IF a = <<>> THEN <<>>
           ELSE IF a[Len(a)] = 0 THEN Norm(SubSeq(a, 1, Len(a) - 1))
           ELSE a

RECURSIVE NatToMag(_)
NatToMag(n) == IF n = 0 THEN <<>> ELSE <<n % BASE>> \o NatToMag(n \div BASE)

RECURSIVE MagToNat(_)
MagToNat(a) == IF a = <<>> THEN 0 ELSE Head(a) + BASE * MagToNat(Tail(a))

\* does the magnitude fit a 31-bit machine integer of the model checker
FitsNat(a) == Len(a) <= 2

RECURSIVE AddC(_, _, _)
AddC(a, b, c) ==
    IF a = <<>> /\ b = <<>> THEN (IF c = 0 THEN <<>> ELSE <<c>>)
    ELSE LET x == (IF a = <<>> THEN 0 ELSE Head(a))
                  + (IF b = <<>> THEN 0 ELSE Head(b)) + c
         IN <<x % BASE>> \o AddC(IF a = <<>> THEN <<>> ELSE Tail(a),
                                 IF b = <<>> THEN <<>> ELSE Tail(b),
                                 x \div BASE)

AddM(a, b) == AddC(a, b, 0)

\* a - b for a >= b
RECURSIVE SubC(_, _, _)
SubC(a, b, c) ==
    IF a = <<>> THEN <<>>
    ELSE LET x == Head(a) - (IF b = <<>> THEN 0 ELSE Head(b)) - c
         IN <<x % BASE>> \o SubC(Tail(a),
                                 IF b = <<>> THEN <<>> ELSE Tail(b),
                                 IF x < 0 THEN 1 ELSE 0)

SubM(a, b) == Norm(SubC(a, b, 0))

RECURSIVE CmpTop(_, _)
CmpTop(a, b) ==
    IF a = <<>> THEN 0
    ELSE LET n == Len(a)
         IN IF a[n] < b[n] THEN -1
            ELSE IF a[n] > b[n] THEN 1
            ELSE CmpTop(SubSeq(a, 1, n - 1), SubSeq(b, 1, n - 1))

CmpM(a, b) == IF Len(a) < Len(b) THEN -1
              ELSE IF Len(a) > Len(b) THEN 1
              ELSE CmpTop(a, b)

\* a * c + carry for a machine integer 0 <= c < BASE
RECURSIVE MulC(_, _, _)
MulC(a, c, carry) ==
    IF a = <<>> THEN NatToMag(carry)
    ELSE LET x == Head(a) * c + carry
         IN <<x % BASE>> \o MulC(Tail(a), c, x \div BASE)

MulS(a, c) == Norm(MulC(a, c, 0))

\* a * c for any machine integer c >= 1 whose odd part is below BASE
RECURSIVE MulBig(_, _)
MulBig(a, c) == IF c < BASE THEN MulS(a, c) ELSE MulBig(MulS(a, 2), c \div 2)

\* quotient and remainder of a by a machine integer 1 <= d < BASE: long
\* division from limb i down, r the remainder and q the quotient so far
RECURSIVE DivC(_, _, _, _, _)
DivC(a, i, d, r, q) ==
    IF i = 0 THEN [q |-> q, r |-> r]
    ELSE LET cur == r * BASE + a[i]
             q1  == <<cur \div d>> \o q
         IN InOrder(q1, DivC(a, i - 1, d, cur % d, q1))

DivS(a, d) ==
    LET result(x) == [q |-> Norm(x.q), r |-> x.r]
    IN InOrder(a, result(DivC(a, Len(a), d, 0, <<>>)))

\* floor(a / d) and "the division left a remainder", for d >= 1 that is
\* below BASE after its factors of two are removed
RECURSIVE DivBig(_, _)
DivBig(a, d) ==
    IF d < BASE
    THEN LET result(x) == [q |-> x.q, inexact |-> x.r # 0]
         IN result(DivS(a, d))
    ELSE LET result(h, t) == InOrder(t, [q |-> t.q, inexact |-> (t.inexact \/ h.r # 0)])
             rest(h) == InOrder(h, result(h, DivBig(h.q, d \div 2)))
         IN rest(DivS(a, 2))

\* the number of bits of a limb
BitsOf(n) == CHOOSE b \in 0..LIMB_BITS : n < Pow2(b) /\ (b = 0 \/ n >= Pow2(b - 1))

BitLen(a) == IF a = <<>> THEN 0 ELSE (Len(a) - 1) * LIMB_BITS + BitsOf(a[Len(a)])

Zeros(n) == [i \in 1..n |-> 0]

ShiftL(a, k) == IF a = <<>> THEN <<>>
                ELSE Zeros(k \div LIMB_BITS) \o MulS(a, Pow2(k % LIMB_BITS))

ShiftR(a, k) ==
    IF k \div LIMB_BITS >= Len(a) THEN <<>>
    ELSE DivS(SubSeq(a, (k \div LIMB_BITS) + 1, Len(a)), Pow2(k % LIMB_BITS)).q

(***************************************************************************)
(* binary64 values: [neg, mag] stands for (-1)^neg * mag / 2^FRAC_BITS.    *)
(***************************************************************************)
\* round-to-nearest, ties-to-even, to MANT_BITS significant bits; sticky
\* says that the exact value lies strictly above the magnitude given
RoundMag(a, sticky) ==
    LET up(q, c) == c = 1 \/ (c = 0 /\ (sticky \/ q[1] % 2 = 1))
        nearest(q, k, c) == InOrder(c, ShiftL(IF up(q, c) THEN AddM(q, <<1>>) ELSE q, k))
        rem(q, k) == SubM(a, ShiftL(q, k))
        half(k) == ShiftL(<<1>>, k - 1)
        kept(q, k) == InOrder(q, nearest(q, k, CmpM(rem(q, k), half(k))))
        cut(k) == IF k <= 0 THEN a ELSE kept(ShiftR(a, k), k)
    IN InOrder(a, cut(BitLen(a) - MANT_BITS))

MkFloat(neg, mag) == [neg |-> (neg /\ mag # <<>>), mag |-> mag]

\* float(n) for a machine integer n
FloatFromInt(n) ==
    MkFloat(n < 0, RoundMag(ShiftL(NatToMag(IF n < 0 THEN -n ELSE n), FRAC_BITS), FALSE))

FloatNeg(x) == MkFloat(~x.neg, x.mag)

\* x + y
FloatAdd(x, y) ==
    LET s(c) == IF x.neg = y.neg THEN AddM(x.mag, y.mag)
                ELSE IF c >= 0 THEN SubM(x.mag, y.mag) ELSE SubM(y.mag, x.mag)
        sum(c) == MkFloat(IF x.neg = y.neg \/ c >= 0 THEN x.neg ELSE y.neg,
                          RoundMag(s(c), FALSE))
    IN InOrder(<<x, y>>, sum(CmpM(x.mag, y.mag)))

\* x - y
FloatSub(x, y) == FloatAdd(x, FloatNeg(y))

\* x * c for an integer constant c >= 1
FloatMulInt(x, c) ==
    InOrder(x, MkFloat(x.neg, RoundMag(MulBig(x.mag, c), FALSE)))

\* x / d for an integer constant d >= 1
FloatDivInt(x, d) ==
    LET rounded(t) == InOrder(t, MkFloat(x.neg, RoundMag(t.q, t.inexact)))
    IN InOrder(x, rounded(DivBig(x.mag, d)))

\* int(x): truncation toward zero, as a magnitude with a sign
FloatTruncMag(x) == ShiftR(x.mag, FRAC_BITS)

\* int(x) as a machine integer (the caller knows it is small)
FloatTrunc(x) ==
    LET signed(n) == IF x.neg THEN -n ELSE n
    IN InOrder(x, signed(MagToNat(FloatTruncMag(x))))

\* x // w of Python floats, w a positive integer-valued float: floor(x / w)
FloatFloorDiv(x, w) ==
    LET ex(t, q) == ~t.inexact /\ ShiftL(q, FRAC_BITS) = t.q
        floor(t, q, n) == IF x.neg THEN (IF ex(t, q) THEN -n ELSE -(n + 1)) ELSE n
        whole(t, q) == InOrder(q, floor(t, q, MagToNat(q)))
        quotient(t) == InOrder(t, whole(t, ShiftR(t.q, FRAC_BITS)))
    IN InOrder(x, quotient(DivBig(x.mag, w)))

\* x % w of Python floats, w a positive integer-valued float: fmod, and
\* for a negative x with a non-zero fmod the rounded sum fmod + w
FloatMod(x, w) ==
    LET result(m) == InOrder(m, IF x.neg /\ m # <<>>
                                THEN MkFloat(FALSE, RoundMag(SubM(ShiftL(NatToMag(w), FRAC_BITS), m), FALSE))
                                ELSE MkFloat(FALSE, m))
        rest(q) == InOrder(q, result(SubM(x.mag, ShiftL(MulBig(q, w), FRAC_BITS))))
        quotient(t) == InOrder(t, rest(ShiftR(t.q, FRAC_BITS)))
    IN InOrder(x, quotient(DivBig(x.mag, w)))


(***************************************************************************)
(* Strings: sequences of one-character strings.                            *)
(***************************************************************************)
Digits == <<"0", "1", "2", "3", "4", "5", "6", "7", "8", "9">>

DigitChar(d) == Digits[d + 1]

IsDigit(c) == \E i \in 1..10 : Digits[i] = c

DigitVal(c) == (CHOOSE i \in 1..10 : Digits[i] = c) - 1

RECURSIVE NatToStr(_)
NatToStr(n) == IF n < 10 THEN <<DigitChar(n)>>
               ELSE NatToStr(n \div 10) \o <<DigitChar(n % 10)>>

RECURSIVE ZeroPad(_, _)
ZeroPad(s, width) == IF Len(s) >= width THEN s ELSE ZeroPad(<<"0">> \o s, width)

\* format(n, "0<width>d"): the sign counts in the width, zeros follow it
FormatInt(n, width) ==
    IF n < 0 THEN <<"-">> \o ZeroPad(NatToStr(-n), width - 1)
    ELSE ZeroPad(NatToStr(n), width)

\* str(n)
IntToStr(n) == FormatInt(n, 1)

\* s.split(sep) for a one-character separator
RECURSIVE SplitAcc(_, _, _)
SplitAcc(s, sep, cur) ==
    IF s = <<>> THEN <<cur>>
    ELSE IF Head(s) = sep THEN <<cur>> \o SplitAcc(Tail(s), sep, <<>>)
    ELSE SplitAcc(Tail(s), sep, Append(cur, Head(s)))

Split(s, sep) == SplitAcc(s, sep, <<>>)

RECURSIVE StripLeft(_)
StripLeft(s) == IF s # <<>> /\ Head(s) = " " THEN StripLeft(Tail(s)) ELSE s

RECURSIVE StripRight(_)
StripRight(s) == IF s # <<>> /\ s[Len(s)] = " "
                 THEN StripRight(SubSeq(s, 1, Len(s) - 1)) ELSE s

Strip(s) == StripRight(StripLeft(s))

AllDigits(s) == s # <<>> /\ \A i \in 1..Len(s) : IsDigit(s[i])

RECURSIVE DigitsToNat(_, _)
DigitsToNat(s, acc) == IF s = <<>> THEN acc
                       ELSE DigitsToNat(Tail(s), acc * 10 + DigitVal(Head(s)))

\* int(s): surrounding blanks and one sign are accepted; anything else is a
\* ValueError ([ok |-> FALSE])
ParseInt(s) ==
    LET value(t, sgn, body) ==
            IF AllDigits(body)
            THEN [ok |-> TRUE,
                  val |-> IF sgn /\ Head(t) = "-" THEN -DigitsToNat(body, 0)
                          ELSE DigitsToNat(body, 0)]
            ELSE [ok |-> FALSE, val |-> 0]
        signed(t, sgn) == value(t, sgn, IF sgn THEN Tail(t) ELSE t)
        stripped(t) == signed(t, t # <<>> /\ Head(t) \in {"-", "+"})
    IN stripped(Strip(s))

(***************************************************************************)
(* The proleptic Gregorian calendar of datetime, counted in days and       *)
(* seconds from the reference epoch 2025-01-01T00:00:00.                   *)
(***************************************************************************)
SECONDS_PER_DAY == 86400
MINYEAR == 1
MAXYEAR == 9999

IsLeap(y) == y % 4 = 0 /\ (y % 100 # 0 \/ y % 400 = 0)

DaysInMonth(y, m) ==
    IF m = 2 THEN (IF IsLeap(y) THEN 29 ELSE 28)
    ELSE IF m \in {4, 6, 9, 11} THEN 30 ELSE 31

\* days from 0000-03-01 to y-m-d (civil algorithm on 400-year eras)
DaysFromCivil0(y, m, d) ==
    LET doy(mp)  == (153 * mp + 2) \div 5 + d - 1
        doe(yoe) == yoe * 365 + yoe \div 4 - yoe \div 100 + doy((m + 9) % 12)
        days(yy, era) == era * 146097 + doe(yy - era * 400)
        from(yy) == days(yy, yy \div 400)
    IN from(IF m <= 2 THEN y - 1 ELSE y)

\* days from the reference date 2025-01-01 to y-m-d
DaysFromCivil(y, m, d) == DaysFromCivil0(y, m, d) - DaysFromCivil0(2025, 1, 1)

CivilFromDays(n) ==
    LET date(era, yoe, doy, mp, m) ==
            [year  |-> yoe + era * 400 + (IF m <= 2 THEN 1 ELSE 0),
             month |-> m,
             day   |-> doy - (153 * mp + 2) \div 5 + 1]
        month(era, yoe, doy, mp) == date(era, yoe, doy, mp, IF mp < 10 THEN mp + 3 ELSE mp - 9)
        day_of_year(era, yoe, doy) == month(era, yoe, doy, (5 * doy + 2) \div 153)
        year_of_era(era, doe, yoe) ==
            day_of_year(era, yoe, doe - (365 * yoe + yoe \div 4 - yoe \div 100))
        day_of_era(era, doe) ==
            year_of_era(era, doe,
                        (doe - doe \div 1460 + doe \div 36524 - doe \div 146096) \div 365)
        era_of(z) == day_of_era(z \div 146097, z - (z \div 146097) * 146097)
    IN era_of(n + DaysFromCivil0(2025, 1, 1))

\* date.weekday() of the day n days after 2025-01-01 (a Wednesday): Monday = 0
Weekday(n) == (n + 2) % 7

MIN_DAY == DaysFromCivil(MINYEAR, 1, 1)
MAX_DAY == DaysFromCivil(MAXYEAR, 12, 31)

(***************************************************************************)
(* datetime values: a wall-clock reading [day, sod] (days from 2025-01-01  *)
(* and second of the day) and, for an aware datetime, the zone key.        *)
(***************************************************************************)
MkTime(day, sod) == [day |-> day, sod |-> sod]

\* a reading moved by a machine-integer number of seconds
TimePlus(t, delta) ==
    LET moved(s) == MkTime(t.day + s \div SECONDS_PER_DAY, s % SECONDS_PER_DAY)
    IN moved(t.sod + delta)

TimeLess(a, b) == a.day < b.day \/ (a.day = b.day /\ a.sod < b.sod)

\* datetime raises OverflowError outside year 1..9999
InRange(t) == MIN_DAY <= t.day /\ t.day <= MAX_DAY

(***************************************************************************)
(* zoneinfo: the zones the model knows; any other key is not found.        *)
(***************************************************************************)
KnownZones == {"UTC", "America/New_York"}

\* n-th Sunday (n >= 1) of month m of year y, as a day number
NthSunday(y, m, n) ==
    LET sunday(first) == first + ((6 - Weekday(first)) % 7) + 7 * (n - 1)
    IN sunday(DaysFromCivil(y, m, 1))

\* America/New_York since 2007: daylight time from the second Sunday of
\* March 07:00 UTC to the first Sunday of November 06:00 UTC
NY_STD == -18000
NY_DST == -14400

NYStartUTC(y) == MkTime(NthSunday(y, 3, 2), 7 * 3600)
NYEndUTC(y)   == MkTime(NthSunday(y, 11, 1), 6 * 3600)

\* tz.utcoffset(dt) for a wall-clock reading with fold = 0: the wall-clock
\* transition instants are the UTC ones plus the larger of the two offsets
UtcOffsetWall(tz, wall) ==
    LET offset(y) == IF /\ ~TimeLess(wall, TimePlus(NYStartUTC(y), NY_DST))
                        /\ TimeLess(wall, TimePlus(NYEndUTC(y), NY_DST))
                     THEN NY_DST ELSE NY_STD
    IN IF tz = "UTC" THEN 0 ELSE offset(CivilFromDays(wall.day).year)

\* the offset in force at a UTC instant (tz.fromutc)
UtcOffsetAt(tz, utc) ==
    LET offset(y) == IF ~TimeLess(utc, NYStartUTC(y)) /\ TimeLess(utc, NYEndUTC(y))
                     THEN NY_DST ELSE NY_STD
    IN IF tz = "UTC" THEN 0 ELSE offset(CivilFromDays(utc.day).year)

\* an aware datetime
MkDateTime(wall, tz) == [wall |-> wall, tz |-> tz]

\* the UTC reading of an aware datetime (dt - dt.utcoffset())
ToUTC(dt) == TimePlus(dt.wall, -UtcOffsetWall(dt.tz, dt.wall))

\* AsTimezone as dt.replace(tzinfo = ZoneInfo(tz)) would be: the reading is
\* kept and only the zone changes
AsTimezoneKeepingWall(dt, tz) == [ok |-> TRUE, dt |-> [wall |-> dt.wall, tz |-> tz]]

\* dt.astimezone(ZoneInfo(tz)) for a known zone: the zone cache hands out
\* one object per key, and astimezone to the datetime's own tzinfo object
\* returns the datetime untouched; otherwise the conversion goes through UTC
\* and raises OverflowError when the reading leaves year 1..9999
AsTimezone(dt, tz) ==
    LET moved(u, w) == [ok |-> InRange(u) /\ InRange(w), dt |-> MkDateTime(w, tz)]
        through(u) == moved(u, TimePlus(u, UtcOffsetAt(tz, u)))
    IN IF dt.tz = tz THEN [ok |-> TRUE, dt |-> dt] ELSE through(ToUTC(dt))

\* dt.astimezone(timezone.utc): never the same object as a ZoneInfo
AsUTC(dt) ==
    LET at(u) == [ok |-> InRange(u), dt |-> MkDateTime(u, "UTC")] IN at(ToUTC(dt))

\* dt.strftime("%d/%m/%Y %H:%M:%S"); the C library's %Y does not pad the year
Strftime(dt) ==
    LET text(c, s) ==
            FormatInt(c.day, 2) \o <<"/">> \o FormatInt(c.month, 2) \o <<"/">>
            \o IntToStr(c.year) \o <<" ">> \o FormatInt(s \div 3600, 2) \o <<":">>
            \o FormatInt((s % 3600) \div 60, 2) \o <<":">> \o FormatInt(s % 60, 2)
    IN text(CivilFromDays(dt.wall.day), dt.wall.sod)

\* the fields strptime's pattern accepts: one or two digits (four for %Y)
FieldOK(s, maxlen, lo, hi) ==
    LET between(n) == n >= lo /\ n <= hi
    IN AllDigits(s) /\ Len(s) <= maxlen /\ between(DigitsToNat(s, 0))

\* datetime.strptime(s, "%d/%m/%Y %H:%M:%S"): a naive wall-clock reading,
\* or a ValueError ([ok |-> FALSE])
Strptime(s) ==
    LET bad == [ok |-> FALSE, wall |-> MkTime(0, 0)]
        value(d, mo, y, h, mi, se) ==
            IF d <= DaysInMonth(y, mo) /\ se <= 59
            THEN [ok |-> TRUE,
                  wall |-> MkTime(DaysFromCivil(y, mo, d), h * 3600 + mi * 60 + se)]
            ELSE bad
        fields(dparts, tparts) ==
            IF /\ Len(dparts) = 3 /\ Len(tparts) = 3
               /\ FieldOK(dparts[1], 2, 1, 31) /\ FieldOK(dparts[2], 2, 1, 12)
               /\ FieldOK(dparts[3], 4, MINYEAR, MAXYEAR) /\ Len(dparts[3]) = 4
               /\ FieldOK(tparts[1], 2, 0, 23) /\ FieldOK(tparts[2], 2, 0, 59)
               /\ FieldOK(tparts[3], 2, 0, 61)
            THEN value(DigitsToNat(dparts[1], 0), DigitsToNat(dparts[2], 0),
                       DigitsToNat(dparts[3], 0), DigitsToNat(tparts[1], 0),
                       DigitsToNat(tparts[2], 0), DigitsToNat(tparts[3], 0))
            ELSE bad
        split(halves) ==
            IF Len(halves) = 2 THEN fields(Split(halves[1], "/"), Split(halves[2], ":"))
            ELSE bad
    IN split(Split(s, " "))

\* (dt - ref_earth).total_seconds() for a UTC datetime: the integer number
\* of seconds, converted to a double
TotalSeconds(wall) ==
    FloatAdd(FloatMulInt(FloatFromInt(wall.day), SECONDS_PER_DAY), FloatFromInt(wall.sod))

US_PER_SECOND == 1000000

\* ref_earth + timedelta(seconds = x): the double is split by modf, the
\* fraction is scaled to microseconds in double arithmetic and rounded half
\* to even; the sum is normalised to days and seconds (the microseconds
\* are dropped by every strftime of the source).  OverflowError when the
\* date leaves year 1..9999.
RefPlusSeconds(x) ==
    LET none == [ok |-> FALSE, dt |-> MkDateTime(MkTime(0, 0), "UTC")]
        at(t) == [ok |-> InRange(t), dt |-> MkDateTime(t, "UTC")]
        \* whole seconds below (x >= 0) or above (x < 0) and the microseconds
        sum(d, sod, usr) ==
            at(IF ~x.neg THEN MkTime(d, sod)
               ELSE IF usr = 0 THEN TimePlus(MkTime(-d, 0), -sod)
               ELSE TimePlus(MkTime(-d, 0), -sod - 1))
        normalised(secs, days, usr) ==
            InOrder(days,
                    IF ~FitsNat(days) THEN none
                    ELSE sum(MagToNat(days),
                             MagToNat(SubM(secs, MulBig(days, SECONDS_PER_DAY))), usr))
        carried(secs, usr) == InOrder(secs, normalised(secs, DivBig(secs, SECONDS_PER_DAY).q, usr))
        seconds(ipart, us) ==
            InOrder(us, carried(IF us = US_PER_SECOND THEN AddM(ipart, <<1>>) ELSE ipart,
                                IF us = US_PER_SECOND THEN 0 ELSE us))
        half_even(ipart, n, c) ==
            InOrder(c, seconds(ipart, n + (IF c = 1 \/ (c = 0 /\ n % 2 = 1) THEN 1 ELSE 0)))
        micros(ipart, p, pint) ==
            InOrder(pint,
                    half_even(ipart, MagToNat(pint),
                              CmpM(SubM(p, ShiftL(pint, FRAC_BITS)),
                                   ShiftL(<<1>>, FRAC_BITS - 1))))
        scaled(ipart, p) == InOrder(p, micros(ipart, p, ShiftR(p, FRAC_BITS)))
        modf(ipart) ==
            InOrder(ipart,
                    scaled(ipart,
                           RoundMag(MulBig(SubM(x.mag, ShiftL(ipart, FRAC_BITS)),
                                           US_PER_SECOND), FALSE)))
    IN InOrder(x, modf(FloatTruncMag(x)))

(***************************************************************************)
(* Body constants (src/app.py, lines 15-41).                               *)
(***************************************************************************)
SOL_SECONDS == 24 * 3600 + 40 * 60
MARS_HOURS_PER_DAY == 24
MARS_HOUR_LENGTH == SOL_SECONDS \div 24
MARS_YEAR_SOLS == 668
MARS_REF_OFFSET_SECONDS == 3885
MARS_LONG_DIVISOR == 15

PHOBOS_SOL_SECONDS == 7 * 3600 + 39 * 60
PHOBOS_HOURS_PER_DAY == 9
PHOBOS_HOUR_LENGTH == PHOBOS_SOL_SECONDS \div PHOBOS_HOURS_PER_DAY
PHOBOS_YEAR_DAYS == 1000
PHOBOS_LONG_DIVISOR == 40

SATURN_SOL_SECONDS == 10 * 63 * 60
SATURN_HOURS_PER_DAY == 10
SATURN_HOUR_LENGTH == SATURN_SOL_SECONDS \div SATURN_HOURS_PER_DAY
SATURN_YEAR_DAYS == 1000
SATURN_LONG_DIVISOR == 36

(***************************************************************************)
(* What a call gives back: a string (text), one of the source's "Error     *)
(* ...: <exception>" strings (error, named by its prefix), the string      *)
(* "Conversion not supported.", None, or an exception leaving the call.    *)
(***************************************************************************)
Text(s) == [kind |-> "text", text |-> s, label |-> ""]
Error(label) == [kind |-> "error", text |-> <<>>, label |-> label]
NotSupported == [kind |-> "unsupported", text |-> <<>>, label |-> "Conversion not supported."]
NoneResult == [kind |-> "none", text |-> <<>>, label |-> ""]
Raised(exc) == [kind |-> "raised", text |-> <<>>, label |-> exc]

(***************************************************************************)
(* Encoders: Earth datetime to a body's local date and clock.              *)
(***************************************************************************)
\* (planetary_longitude / LONG_DIVISOR) / HOURS_PER_DAY
longitude_offset(planetary_longitude, long_divisor, hours_per_day) ==
    FloatDivInt(FloatDivInt(FloatFromInt(planetary_longitude), long_divisor), hours_per_day)

\* the day count and clock fields of an encoder, from the elapsed seconds
local_clock(elapsed_seconds, planetary_longitude, sol_seconds, long_divisor, hours_per_day, hour_length) ==
    LET clock(sols_passed, total_seconds, remainder) ==
            InOrder(remainder,
                    [days   |-> sols_passed,
                     hour   |-> FloatFloorDiv(total_seconds, hour_length),
                     minute |-> FloatFloorDiv(remainder, 60),
                     second |-> FloatTrunc(FloatMod(remainder, 60))])
        seconds(sols_passed, total_seconds) ==
            InOrder(total_seconds,
                    clock(sols_passed, total_seconds, FloatMod(total_seconds, hour_length)))
        fraction(sols_passed, fractional_sol) ==
            InOrder(fractional_sol,
                    seconds(sols_passed, FloatMulInt(fractional_sol, sol_seconds)))
        whole(adjusted_sols, sols_passed) ==
            InOrder(sols_passed,
                    fraction(sols_passed, FloatSub(adjusted_sols, FloatFromInt(sols_passed))))
        adjusted(adjusted_sols) ==
            InOrder(adjusted_sols, whole(adjusted_sols, FloatTrunc(adjusted_sols)))
        elapsed(sols_elapsed) ==
            InOrder(sols_elapsed,
                    adjusted(FloatAdd(sols_elapsed,
                                      longitude_offset(planetary_longitude, long_divisor,
                                                       hours_per_day))))
    IN InOrder(elapsed_seconds, elapsed(FloatDivInt(elapsed_seconds, sol_seconds)))

\* "HH:MM:SS" with the format spec 02 on each field
FormatClock(f) ==
    FormatInt(f.hour, 2) \o <<":">> \o FormatInt(f.minute, 2) \o <<":">> \o FormatInt(f.second, 2)

\* mars_fields with the sol wrapped into the year but the year never
\* advanced
mars_fields_year_zero(earth_date_utc, planetary_longitude) ==
    LET fields(f) == [year |-> 0, day |-> (f.days % MARS_YEAR_SOLS) + 1,
                      hour |-> f.hour, minute |-> f.minute, second |-> f.second]
    IN fields(local_clock(FloatAdd(TotalSeconds(earth_date_utc.wall),
                                   FloatFromInt(MARS_REF_OFFSET_SECONDS)),
                          planetary_longitude, SOL_SECONDS, MARS_LONG_DIVISOR,
                          MARS_HOURS_PER_DAY, MARS_HOUR_LENGTH))

mars_fields(earth_date_utc, planetary_longitude) ==
    LET fields(f) == [year |-> f.days \div MARS_YEAR_SOLS, day |-> (f.days % MARS_YEAR_SOLS) + 1,
                      hour |-> f.hour, minute |-> f.minute, second |-> f.second]
    IN fields(local_clock(FloatAdd(TotalSeconds(earth_date_utc.wall),
                                   FloatFromInt(MARS_REF_OFFSET_SECONDS)),
                          planetary_longitude, SOL_SECONDS, MARS_LONG_DIVISOR,
                          MARS_HOURS_PER_DAY, MARS_HOUR_LENGTH))

convert_earth_to_mars_date(earth_date, earth_timezone, planetary_longitude) ==
    LET text(f) == InOrder(f, Text(IntToStr(f.year) \o <<"/">> \o FormatInt(f.day, 2)
                                   \o <<" ">> \o FormatClock(f)))
        encode(u) == IF ~u.ok THEN Raised("OverflowError")
                     ELSE text(mars_fields(u.dt, planetary_longitude))
    IN encode(AsUTC(earth_date))

phobos_fields(earth_date_utc, planetary_longitude) ==
    LET fields(f) == [year |-> 0, day |-> f.days + 1,
                      hour |-> f.hour, minute |-> f.minute, second |-> f.second]
    IN fields(local_clock(TotalSeconds(earth_date_utc.wall),
                          planetary_longitude, PHOBOS_SOL_SECONDS, PHOBOS_LONG_DIVISOR,
                          PHOBOS_HOURS_PER_DAY, PHOBOS_HOUR_LENGTH))

PhobosDay == <<"P", "h", "o", "b", "o", "s", " ", "D", "a", "y", " ">>

convert_earth_to_phobos_date(earth_date, earth_timezone, planetary_longitude) ==
    LET text(f) == InOrder(f, Text(PhobosDay \o FormatInt(f.day, 2) \o <<" ">> \o FormatClock(f)))
        encode(u) == IF ~u.ok THEN Raised("OverflowError")
                     ELSE text(phobos_fields(u.dt, planetary_longitude))
    IN encode(AsUTC(earth_date))

saturn_fields(earth_date_utc, planetary_longitude) ==
    LET fields(f) == [year |-> f.days \div SATURN_YEAR_DAYS,
                      day |-> (f.days % SATURN_YEAR_DAYS) + 1,
                      hour |-> f.hour, minute |-> f.minute, second |-> f.second]
    IN fields(local_clock(TotalSeconds(earth_date_utc.wall),
                          planetary_longitude, SATURN_SOL_SECONDS, SATURN_LONG_DIVISOR,
                          SATURN_HOURS_PER_DAY, SATURN_HOUR_LENGTH))

convert_earth_to_saturn_date(earth_date, earth_timezone, planetary_longitude) ==
    LET text(f) == InOrder(f, Text(IntToStr(f.year) \o <<"/">> \o FormatInt(f.day, 2)
                                   \o <<" ">> \o FormatClock(f)))
        encode(u) == IF ~u.ok THEN Raised("OverflowError")
                     ELSE text(saturn_fields(u.dt, planetary_longitude))
    IN encode(AsUTC(earth_date))

(***************************************************************************)
(* Decoders: a body's local date and clock to an Earth date string.        *)
(***************************************************************************)
\* ParseClock that refuses an hour outside 0..23 or a minute or second
\* outside 0..59
ParseClockInRange(time_str) ==
    LET bad == [ok |-> FALSE, hour |-> 0, minute |-> 0, second |-> 0]
        clock(h, m, s) ==
            IF h.ok /\ m.ok /\ s.ok /\ h.val \in 0..23 /\ m.val \in 0..59 /\ s.val \in 0..59
            THEN [ok |-> TRUE, hour |-> h.val, minute |-> m.val, second |-> s.val]
            ELSE bad
        fields(parts) ==
            IF Len(parts) = 3
            THEN clock(ParseInt(parts[1]), ParseInt(parts[2]), ParseInt(parts[3]))
            ELSE bad
    IN fields(Split(time_str, ":"))

\* time_str.split(":") and the three int() calls
ParseClock(time_str) ==
    LET bad == [ok |-> FALSE, hour |-> 0, minute |-> 0, second |-> 0]
        clock(h, m, s) ==
            IF h.ok /\ m.ok /\ s.ok
            THEN [ok |-> TRUE, hour |-> h.val, minute |-> m.val, second |-> s.val]
            ELSE bad
        fields(parts) ==
            IF Len(parts) = 3
            THEN clock(ParseInt(parts[1]), ParseInt(parts[2]), ParseInt(parts[3]))
            ELSE bad
    IN fields(Split(time_str, ":"))

\* local_days with the days counted from 1 instead of 0: day where the
\* source has day - 1
local_days_from_one(year, day, c, sol_seconds, year_days, hour_length) ==
    LET total(time_fraction) ==
            InOrder(time_fraction, FloatAdd(FloatFromInt(year * year_days + day), time_fraction))
        fraction(total_seconds) ==
            InOrder(total_seconds, total(FloatDivInt(total_seconds, sol_seconds)))
    IN fraction(FloatAdd(FloatAdd(FloatMulInt(FloatFromInt(c.hour), hour_length),
                                  FloatFromInt(c.minute * 60)),
                         FloatFromInt(c.second)))

\* year * YEAR_DAYS + (day - 1) + (hour * HOUR_LENGTH + minute * 60 + second) / SOL
local_days(year, day, c, sol_seconds, year_days, hour_length) ==
    LET total(time_fraction) ==
            InOrder(time_fraction,
                    FloatAdd(FloatFromInt(year * year_days + (day - 1)), time_fraction))
        fraction(total_seconds) ==
            InOrder(total_seconds, total(FloatDivInt(total_seconds, sol_seconds)))
    IN fraction(FloatAdd(FloatAdd(FloatMulInt(FloatFromInt(c.hour), hour_length),
                                  FloatFromInt(c.minute * 60)),
                         FloatFromInt(c.second)))

\* ref_earth + timedelta(seconds), astimezone(ZoneInfo(earth_timezone)), strftime
EarthString(elapsed_seconds, earth_timezone) ==
    LET text(local) == IF ~local.ok THEN Raised("OverflowError")
                       ELSE Text(Strftime(local.dt))
        zoned(utc) == IF ~utc.ok THEN Raised("OverflowError")
                      ELSE IF earth_timezone \notin KnownZones
                      THEN Raised("ZoneInfoNotFoundError")
                      ELSE text(AsTimezone(utc.dt, earth_timezone))
    IN InOrder(elapsed_seconds, zoned(RefPlusSeconds(elapsed_seconds)))

convert_mars_to_earth_date(mars_year, sol_of_year, mars_time_str, planetary_longitude, earth_timezone) ==
    LET elapsed(sols_elapsed) ==
            InOrder(sols_elapsed,
                    EarthString(FloatMulInt(sols_elapsed, SOL_SECONDS), earth_timezone))
        sols(mars_total_sols_adjusted, timezone_offset_in_sols, reference_offset_fraction) ==
            InOrder(<<mars_total_sols_adjusted, timezone_offset_in_sols,
                      reference_offset_fraction>>,
                    elapsed(FloatSub(FloatSub(mars_total_sols_adjusted,
                                              reference_offset_fraction),
                                     timezone_offset_in_sols)))
        decode(c) ==
            IF ~c.ok THEN Error("Error parsing Mars time")
            ELSE sols(local_days(mars_year, sol_of_year, c, SOL_SECONDS, MARS_YEAR_SOLS,
                                 MARS_HOUR_LENGTH),
                      longitude_offset(planetary_longitude, MARS_LONG_DIVISOR,
                                       MARS_HOURS_PER_DAY),
                      FloatDivInt(FloatFromInt(MARS_REF_OFFSET_SECONDS), SOL_SECONDS))
    IN decode(ParseClock(mars_time_str))

convert_phobos_to_earth_date(phobos_year, phobos_day, phobos_time_str, planetary_longitude, earth_timezone) ==
    LET elapsed(days_elapsed) ==
            InOrder(days_elapsed,
                    EarthString(FloatMulInt(days_elapsed, PHOBOS_SOL_SECONDS), earth_timezone))
        days(phobos_total_days_adjusted, offset_fraction) ==
            InOrder(<<phobos_total_days_adjusted, offset_fraction>>,
                    elapsed(FloatSub(phobos_total_days_adjusted, offset_fraction)))
        decode(c) ==
            IF ~c.ok THEN Error("Error parsing Phobos time")
            ELSE days(local_days(phobos_year, phobos_day, c, PHOBOS_SOL_SECONDS,
                                 PHOBOS_YEAR_DAYS, PHOBOS_HOUR_LENGTH),
                      longitude_offset(planetary_longitude, PHOBOS_LONG_DIVISOR,
                                       PHOBOS_HOURS_PER_DAY))
    IN decode(ParseClock(phobos_time_str))

convert_saturn_to_earth_date(saturn_year, saturn_day, saturn_time_str, planetary_longitude, earth_timezone) ==
    LET elapsed(days_elapsed) ==
            InOrder(days_elapsed,
                    EarthString(FloatMulInt(days_elapsed, SATURN_SOL_SECONDS), earth_timezone))
        days(saturn_total_days_adjusted, timezone_offset_in_sats) ==
            InOrder(<<saturn_total_days_adjusted, timezone_offset_in_sats>>,
                    elapsed(FloatSub(saturn_total_days_adjusted, timezone_offset_in_sats)))
        decode(c) ==
            IF ~c.ok THEN Error("Error parsing Saturn time")
            ELSE days(local_days(saturn_year, saturn_day, c, SATURN_SOL_SECONDS,
                                 SATURN_YEAR_DAYS, SATURN_HOUR_LENGTH),
                      longitude_offset(planetary_longitude, SATURN_LONG_DIVISOR,
                                       SATURN_HOURS_PER_DAY))
    IN decode(ParseClock(saturn_time_str))

(***************************************************************************)
(* perform_conversion (src/app.py, lines 45-157).                          *)
(***************************************************************************)
\* date_str.split("/"), the length test and the two int() calls
ParseYearDay(date_str) ==
    LET bad == [ok |-> FALSE, year |-> 0, day |-> 0]
        pair(y, d) == IF y.ok /\ d.ok THEN [ok |-> TRUE, year |-> y.val, day |-> d.val] ELSE bad
        fields(parts) == IF Len(parts) = 2 THEN pair(ParseInt(parts[1]), ParseInt(parts[2]))
                         ELSE bad
    IN fields(Split(date_str, "/"))

\* strptime(date_str + " " + time_str, ...).replace(tzinfo = ZoneInfo(tz)):
\* a ValueError of strptime or an unknown zone key ends in the except clause
ParseEarth(date_str, time_str, earth_timezone) ==
    LET aware(p) == [ok |-> p.ok /\ earth_timezone \in KnownZones,
                     dt |-> MkDateTime(p.wall, earth_timezone)]
    IN aware(Strptime(date_str \o <<" ">> \o time_str))

\* strptime(intermediate, ...).replace(tzinfo = ZoneInfo("UTC")) on what a
\* decoder returned: its "Error parsing ... time" string does not match
ParseIntermediate(intermediate) ==
    LET aware(p) == [ok |-> intermediate.kind = "text" /\ p.ok, dt |-> MkDateTime(p.wall, "UTC")]
    IN aware(Strptime(intermediate.text))

\* earth_date.astimezone(ZoneInfo(to_earth_timezone)).strftime(...)
EarthToEarth(earth_date, to_earth_timezone) ==
    LET text(c) == IF ~c.ok THEN Raised("OverflowError") ELSE Text(Strftime(c.dt))
    IN IF to_earth_timezone \notin KnownZones THEN Raised("ZoneInfoNotFoundError")
       ELSE text(AsTimezone(earth_date, to_earth_timezone))

(***************************************************************************)
(* Inputs of the model.                                                    *)
(***************************************************************************)
MaxYear == 1
MaxHour == 2
MaxLongSteps == 1
MaxOffset == 2

Bodies == {"Earth", "Mars", "Phobos", "Saturn"}
NonEarth == {"Mars", "Phobos", "Saturn"}
BodyNames == Bodies \cup {"Jupiter"}
Zones == KnownZones \cup {"Mars/Olympus"}

Longitudes == {MARS_LONG_DIVISOR * k : k \in -MaxLongSteps..MaxLongSteps} \cup {1}

MinuteSecondSamples == {<<0, 0>>, <<3, 5>>, <<59, 59>>}

ClockStrings(hours) ==
    {FormatClock([hour |-> h, minute |-> ms[1], second |-> ms[2]]) :
        h \in hours, ms \in MinuteSecondSamples}

PlanetDates ==
    {IntToStr(y) \o <<"/">> \o FormatInt(d, 2) : y \in -MaxYear..MaxYear, d \in {1, MARS_YEAR_SOLS}}
    \cup {<<"a", "b", "c">>, <<"1", "/", "2", "/", "3">>, <<"5", "0", "0", "0", "/", "0", "1">>,
          <<"0", "1", "/", "0", "1", "/", "2", "0", "2", "5">>}

PlanetTimes ==
    ClockStrings(0..MaxHour - 1)
    \cup {<<"1", "2", ":", "0", "0">>, <<"a", "a", ":", "0", "0", ":", "0", "0">>,
          <<"2", "4", ":", "0", "0", ":", "0", "0">>,
          <<"-", "1", ":", "6", "1", ":", "3", "8">>,
          <<"0", "8", ":", "7", "5", ":", "9", "0">>}

\* dd/mm/yyyy of the day n days after 2025-01-01
DateString(n) ==
    LET text(c) == FormatInt(c.day, 2) \o <<"/">> \o FormatInt(c.month, 2) \o <<"/">>
                   \o IntToStr(c.year)
    IN text(CivilFromDays(n))

EarthDates ==
    {DateString(n) : n \in -MaxYear..MaxYear}
    \cup {DateString(DaysFromCivil(2025, 3, 9)), DateString(DaysFromCivil(2025, 11, 2)),
          DateString(DaysFromCivil(9999, 12, 31)),
          <<"3", "0", "/", "0", "2", "/", "2", "0", "2", "5">>, <<"0", "/", "0", "1">>}

EarthTimes ==
    ClockStrings((0..MaxHour) \cup {19, 23}) \cup {<<"2", "5", ":", "0", "0", ":", "0", "0">>}

EpochDate == <<"0", "1", "/", "0", "1", "/", "2", "0", "2", "5">>
Midnight == <<"0", "0", ":", "0", "0", ":", "0", "0">>

MkRequest(f, t, d, c, ftz, ttz, fl, tl) ==
    [from_planet |-> f, to_planet |-> t, date_str |-> d, time_str |-> c,
     from_earth_timezone |-> ftz, to_earth_timezone |-> ttz,
     from_planetary_longitude |-> fl, to_planetary_longitude |-> tl]

\* the arguments of the calls: the fields that the addressed branch does not
\* read are held at their form defaults ("UTC", 0)
DatesOf(f) == IF f = "Earth" THEN EarthDates ELSE PlanetDates
TimesOf(f) == IF f = "Earth" THEN EarthTimes ELSE PlanetTimes
FromZonesOf(f) == IF f = "Earth" THEN Zones ELSE {"UTC"}
ToZonesOf(t) == IF t = "Earth" THEN Zones ELSE {"UTC"}
FromLongitudesOf(f) == IF f = "Earth" THEN {0} ELSE Longitudes
ToLongitudesOf(f, t, fl) ==
    IF t \notin NonEarth THEN {0}
    ELSE IF f = "Earth" THEN Longitudes
    ELSE {fl, MARS_LONG_DIVISOR}

\* the instants of the encoder runs, in seconds from the reference epoch:
\* around the epoch, the start of Mars sol 0 and sol -1, a day before and
\* after the epoch on each body, and the last minute of the second Mars
\* hour of sol 0
Anchors ==
    {0, -MARS_REF_OFFSET_SECONDS, -MARS_REF_OFFSET_SECONDS - SOL_SECONDS,
     SOL_SECONDS - MARS_REF_OFFSET_SECONDS, -PHOBOS_SOL_SECONDS, PHOBOS_SOL_SECONDS,
     -SATURN_SOL_SECONDS, SATURN_SOL_SECONDS,
     2 * MARS_HOUR_LENGTH - MARS_REF_OFFSET_SECONDS - 60}

Instants == {a + k : a \in Anchors, k \in -MaxOffset..MaxOffset}

InstantTime(T) == MkTime(T \div SECONDS_PER_DAY, T % SECONDS_PER_DAY)

\* a second run next to the first: later by dT seconds, or further east by
\* dL degrees
Steps == {<<1, 0>>, <<MARS_HOUR_LENGTH, 0>>, <<SOL_SECONDS, 0>>, <<0, MARS_LONG_DIVISOR>>}

(***************************************************************************)
(* State.                                                                  *)
(***************************************************************************)
VARIABLES
    req,           \* the arguments of the running perform_conversion call
    pc,            \* where the call is: start, decode, reparse, encode, return, raised
    yd,            \* mars_year / sol_of_year (and the Phobos and Saturn pairs)
    intermediate,  \* what the decoder returned in a same-body conversion
    earth_date,    \* earth_date / intermediate_date
    result,        \* result (None at line 51), or the exception leaving the call
    probe,         \* the inputs of a pair of encoder runs
    cpc,           \* where the encoder runs are: start, first, second, decoded
    enc1,          \* what the encoder returned for (T, L)
    enc2,          \* what the encoder returned for (T2, L2)
    dec,           \* what the decoder returned for the fields of enc1
    data,          \* the JSON payload (the form) of the request to app.py
    apc,           \* where the handler of app.py is: start, call, store, done, failed
    to_planets,    \* to_planets
    planet_i,      \* the position of the for loop in to_planets
    conv_result,   \* conv_result (result in the single-destination branch)
    results,       \* results
    response,      \* what the handler sends back
    history_cache, \* the list the global history_cache of APItester.py names
    handler,       \* the requests APItester.py handles, each in its own thread
    inserted       \* the messages in the order of their insert(0, ...) calls

vars == <<req, pc, yd, intermediate, earth_date, result, probe, cpc, enc1, enc2, dec, data, apc, to_planets, planet_i, conv_result, results, response, history_cache, handler, inserted>>

convVars == <<req, pc, yd, intermediate, earth_date, result>>
codecVars == <<probe, cpc, enc1, enc2, dec>>
apiVars == <<data, apc, to_planets, planet_i, conv_result, results, response>>
testerVars == <<history_cache, handler, inserted>>

NoDate == MkDateTime(MkTime(0, 0), "UTC")
NoYearDay == [year |-> 0, day |-> 0]
NoRequest == MkRequest("Earth", "Earth", <<>>, <<>>, "UTC", "UTC", 0, 0)
NoProbe == [body |-> "Mars", T |-> 0, L |-> 0, T2 |-> 0, L2 |-> 0]

ConvIdle ==
    /\ req = NoRequest /\ pc = "idle" /\ yd = NoYearDay /\ intermediate = NoneResult
    /\ earth_date = NoDate /\ result = NoneResult

CodecIdle ==
    /\ probe = NoProbe /\ cpc = "idle" /\ enc1 = NoneResult /\ enc2 = NoneResult
    /\ dec = NoneResult

NoResults == [p \in {} |-> NoneResult]
NoResponse == [status |-> 0, result |-> NoneResult]

ApiIdle ==
    /\ data = NoRequest /\ apc = "idle" /\ to_planets = <<>> /\ planet_i = 0
    /\ conv_result = NoneResult /\ results = NoResults /\ response = NoResponse

\* APItester.py line 17, and no request yet
TesterIdle ==
    /\ history_cache = <<>> /\ handler = <<>> /\ inserted = <<>>

(***************************************************************************)
(* perform_conversion (src/app.py, lines 45-157), statement by statement.  *)
(***************************************************************************)
SameBody == req.from_planet = req.to_planet

EarthSource ==
    /\ req.from_planet = "Earth"
    /\ req.to_planet \in Bodies

PlanetSource ==
    \/ SameBody /\ req.from_planet \in NonEarth
    \/ req.from_planet = "Mars" /\ req.to_planet = "Earth"

DateErrorLabel(body) ==
    CASE body = "Mars" -> "Error parsing Mars date"
      [] body = "Phobos" -> "Error parsing Phobos date"
      [] body = "Saturn" -> "Error parsing Saturn date"

ConvertErrorLabel(body) ==
    CASE body = "Mars" -> "Error converting Mars to Earth"
      [] body = "Phobos" -> "Error converting Phobos to Earth"
      [] body = "Saturn" -> "Error converting Saturn to Earth"

Return(r) ==
    /\ result' = r
    /\ pc' = IF r.kind = "raised" THEN "raised" ELSE "return"

\* lines 51-69, 119-124, 143-151, 155-157: result = None, the branch taken
\* and its first try block
ParseInput ==
    /\ pc = "start"
    /\ IF EarthSource THEN
          \E earth \in {ParseEarth(req.date_str, req.time_str, req.from_earth_timezone)} :
             IF earth.ok
             THEN /\ earth_date' = earth.dt
                  /\ pc' = "encode"
                  /\ UNCHANGED <<yd, result>>
             ELSE /\ Return(Error("Error parsing Earth date/time"))
                  /\ UNCHANGED <<yd, earth_date>>
       ELSE IF PlanetSource THEN
          \E p \in {ParseYearDay(req.date_str)} :
             IF p.ok
             THEN /\ yd' = [year |-> p.year, day |-> p.day]
                  /\ pc' = "decode"
                  /\ UNCHANGED <<earth_date, result>>
             ELSE /\ Return(Error(DateErrorLabel(req.from_planet)))
                  /\ UNCHANGED <<yd, earth_date>>
       ELSE IF SameBody THEN
          /\ Return(NoneResult)
          /\ UNCHANGED <<yd, earth_date>>
       ELSE
          /\ Return(NotSupported)
          /\ UNCHANGED <<yd, earth_date>>
    /\ UNCHANGED <<req, intermediate, codecVars, apiVars, testerVars>>

\* the decoder of a body
DecodeBody(body, year, day, time_str, planetary_longitude, earth_timezone) ==
    CASE body = "Mars" ->
            convert_mars_to_earth_date(year, day, time_str, planetary_longitude, earth_timezone)
      [] body = "Phobos" ->
            convert_phobos_to_earth_date(year, day, time_str, planetary_longitude, earth_timezone)
      [] body = "Saturn" ->
            convert_saturn_to_earth_date(year, day, time_str, planetary_longitude, earth_timezone)

\* the encoder of a body
EncodeBody(body, date, earth_timezone, planetary_longitude) ==
    CASE body = "Mars" -> convert_earth_to_mars_date(date, earth_timezone, planetary_longitude)
      [] body = "Phobos" -> convert_earth_to_phobos_date(date, earth_timezone, planetary_longitude)
      [] body = "Saturn" -> convert_earth_to_saturn_date(date, earth_timezone, planetary_longitude)

\* DecodeZone with the destination's timezone handed to the decoder in every
\* branch
DecodeZoneOfDestination(from_planet, to_planet, to_earth_timezone) == to_earth_timezone

\* the earth_timezone argument of the decoder: "UTC" in a same-body conversion
\* (lines 72-73, 91-92, 110-111), to_earth_timezone from Mars to Earth (lines
\* 153-154)
DecodeZone(from_planet, to_planet, to_earth_timezone) ==
    IF from_planet = to_planet THEN "UTC" ELSE to_earth_timezone

\* lines 72-73, 91-92, 110-111: the decoder's string to "UTC" is the
\* intermediate of a same-body conversion; lines 153-154: the decoder's string
\* to to_earth_timezone is the result of Mars to Earth.  An exception of the
\* decoder leaves the call in both.
Decode ==
    /\ pc = "decode"
    /\ \E r \in {DecodeBody(req.from_planet, yd.year, yd.day, req.time_str,
                            req.from_planetary_longitude,
                            DecodeZone(req.from_planet, req.to_planet,
                                       req.to_earth_timezone))} :
          IF SameBody /\ r.kind # "raised"
          THEN intermediate' = r /\ pc' = "reparse" /\ UNCHANGED result
          ELSE Return(r) /\ UNCHANGED intermediate
    /\ UNCHANGED <<req, yd, earth_date, codecVars, apiVars, testerVars>>

\* lines 74-78, 93-97, 112-116
Reparse ==
    /\ pc = "reparse"
    /\ \E p \in {ParseIntermediate(intermediate)} :
          IF p.ok
          THEN earth_date' = p.dt /\ pc' = "encode" /\ UNCHANGED result
          ELSE Return(Error(ConvertErrorLabel(req.from_planet))) /\ UNCHANGED earth_date
    /\ UNCHANGED <<req, yd, intermediate, codecVars, apiVars, testerVars>>

\* lines 60-61, 80, 99, 118, 126, 134, 142
Encode ==
    /\ pc = "encode"
    /\ IF req.to_planet = "Earth"
       THEN Return(EarthToEarth(earth_date, req.to_earth_timezone))
       ELSE Return(EncodeBody(req.to_planet, earth_date,
                              IF SameBody THEN "UTC" ELSE req.from_earth_timezone,
                              req.to_planetary_longitude))
    /\ UNCHANGED <<req, yd, intermediate, earth_date, codecVars, apiVars, testerVars>>

Init ==
    /\ \E f \in BodyNames, t \in BodyNames :
         \E d \in DatesOf(f), c \in TimesOf(f), ftz \in FromZonesOf(f), ttz \in ToZonesOf(t),
            fl \in FromLongitudesOf(f) :
            \E tl \in ToLongitudesOf(f, t, fl) :
               req = MkRequest(f, t, d, c, ftz, ttz, fl, tl)
    /\ pc = "start"
    /\ yd = NoYearDay /\ intermediate = NoneResult /\ earth_date = NoDate
    /\ result = NoneResult
    /\ CodecIdle /\ ApiIdle /\ TesterIdle

Next == ParseInput \/ Decode \/ Reparse \/ Encode

Spec == Init /\ [][Next]_vars

(***************************************************************************)
(* The encoders and decoders called directly on an instant.                *)
(***************************************************************************)
\* the date and time fields of a printed timestamp: the clock follows the
\* last blank
RECURSIVE LastBlank(_, _)
LastBlank(text, i) == IF i = 0 \/ text[i] = " " THEN i ELSE LastBlank(text, i - 1)

StampDate(text) == SubSeq(text, 1, LastBlank(text, Len(text)) - 1)
StampClock(text) == SubSeq(text, LastBlank(text, Len(text)) + 1, Len(text))

EncodeFirst ==
    /\ cpc = "start"
    /\ enc1' = EncodeBody(probe.body, MkDateTime(InstantTime(probe.T), "UTC"), "UTC", probe.L)
    /\ cpc' = "first"
    /\ UNCHANGED <<probe, enc2, dec, convVars, apiVars, testerVars>>

EncodeSecond ==
    /\ cpc = "first"
    /\ enc2' = EncodeBody(probe.body, MkDateTime(InstantTime(probe.T2), "UTC"), "UTC", probe.L2)
    /\ cpc' = "second"
    /\ UNCHANGED <<probe, enc1, dec, convVars, apiVars, testerVars>>

\* the numbers an encoder printed: "<year>/<day> <h>:<m>:<s>" for Mars and
\* Saturn, "Phobos Day <day> <h>:<m>:<s>" for Phobos, whose day is not
\* wrapped into a year (its year is 0)
StampFields(body, text) ==
    LET fields(p, c) == [year |-> p.year, day |-> p.day, hour |-> c.hour,
                         minute |-> c.minute, second |-> c.second]
        phobos(date) == [year |-> 0,
                         day |-> ParseInt(SubSeq(date, Len(PhobosDay) + 1, Len(date))).val]
    IN fields(IF body = "Phobos" THEN phobos(StampDate(text))
              ELSE ParseYearDay(StampDate(text)),
              ParseClock(StampClock(text)))

\* the decoder of the body on the year, day and clock of the first stamp, at
\* the same longitude
DecodeFirst ==
    /\ cpc = "second"
    /\ \E f \in {StampFields(probe.body, enc1.text)} :
          dec' = DecodeBody(probe.body, f.year, f.day, StampClock(enc1.text), probe.L, "UTC")
    /\ cpc' = "decoded"
    /\ UNCHANGED <<probe, enc1, enc2, convVars, apiVars, testerVars>>

InitCodec ==
    /\ \E b \in NonEarth, T \in Instants, L \in Longitudes, st \in Steps :
          probe = [body |-> b, T |-> T, L |-> L, T2 |-> T + st[1], L2 |-> L + st[2]]
    /\ cpc = "start"
    /\ enc1 = NoneResult /\ enc2 = NoneResult /\ dec = NoneResult
    /\ ConvIdle /\ ApiIdle /\ TesterIdle

NextCodec == EncodeFirst \/ EncodeSecond \/ DecodeFirst

SpecCodec == InitCodec /\ [][NextCodec]_vars

(***************************************************************************)
(* perform_conversion as a whole: what one call returns.                   *)
(***************************************************************************)
\* lines 51-157 in one piece: the branch taken, its first try block, the
\* decoder and the second try block of a same-body conversion, and the
\* encoder (or astimezone) that produces the result
perform_conversion(from_planet, to_planet, date_str, time_str, from_earth_timezone, to_earth_timezone, from_planetary_longitude, to_planetary_longitude) ==
    LET date(dt, tz) == [kind |-> "date", dt |-> dt, tz |-> tz]
        \* lines 60-61, 80, 99, 118, 126, 134, 142
        encoded(d) ==
            IF d.kind # "date" THEN d
            ELSE IF to_planet = "Earth" THEN EarthToEarth(d.dt, to_earth_timezone)
            ELSE EncodeBody(to_planet, d.dt, d.tz, to_planetary_longitude)
        \* lines 74-78, 93-97, 112-116
        reparsed(p) == IF p.ok THEN date(p.dt, "UTC")
                       ELSE Error(ConvertErrorLabel(from_planet))
        \* lines 72-73, 91-92, 110-111, 153-154
        decoded(r) == IF from_planet = to_planet /\ r.kind # "raised"
                      THEN reparsed(ParseIntermediate(r))
                      ELSE r
        \* lines 63-69, 82-88, 101-107, 144-150
        planet_date(p) ==
            IF p.ok
            THEN decoded(DecodeBody(from_planet, p.year, p.day, time_str,
                                    from_planetary_longitude,
                                    DecodeZone(from_planet, to_planet, to_earth_timezone)))
            ELSE Error(DateErrorLabel(from_planet))
        \* lines 54-58, 120-124, 128-132, 136-140
        earth(e) == IF e.ok THEN date(e.dt, from_earth_timezone)
                    ELSE Error("Error parsing Earth date/time")
    IN encoded(IF from_planet = "Earth" /\ to_planet \in Bodies
               THEN earth(ParseEarth(date_str, time_str, from_earth_timezone))
               ELSE IF \/ from_planet = to_planet /\ from_planet \in NonEarth
                       \/ from_planet = "Mars" /\ to_planet = "Earth"
               THEN planet_date(ParseYearDay(date_str))
               ELSE IF from_planet = to_planet THEN NoneResult
               ELSE NotSupported)

(***************************************************************************)
(* index and convert_api (src/app.py, lines 365-474): one request with one *)
(* or several destination bodies.                                          *)
(***************************************************************************)
MaxDestinations == 2

\* the entries of to_planet, a list or the pieces of a comma-separated
\* string: a body name, with or without blanks around it, or blanks only
Entries == {<<"Earth">>, <<"Mars">>, <<" ", "Jupiter">>, <<" ">>}

RECURSIVE EntryLists(_)
EntryLists(n) ==
    IF n = 0 THEN {<<>>}
    ELSE {<<e>> \o l : e \in Entries, l \in EntryLists(n - 1)}

ToPlanetInputs == UNION {EntryLists(n) : n \in 1..MaxDestinations}

\* the date and time sent from a body: a well-formed pair and a malformed date
ApiDates(f) == IF f = "Earth" THEN {EpochDate, <<"a", "b", "c">>}
               ELSE {<<"0", "/", "0", "1">>, <<"a", "b", "c">>}

\* [p.strip() for p in to_planet_input if p.strip()]
RECURSIVE StripAll(_)
StripAll(input) ==
    IF input = <<>> THEN <<>>
    ELSE IF Strip(Head(input)) = <<>> THEN StripAll(Tail(input))
    ELSE <<Strip(Head(input))[1]>> \o StripAll(Tail(input))

\* lines 460 and 390: several destinations or one
Several == Len(to_planets) > 1

\* lines 432-434: no payload, status 400; lines 455-458, 389: to_planets;
\* lines 461, 391: results = {}
ApiStart ==
    /\ apc = "start"
    /\ IF data = NoRequest
       THEN /\ response' = [status |-> 400, result |-> NoneResult]
            /\ apc' = "done"
            /\ UNCHANGED to_planets
       ELSE /\ to_planets' = StripAll(data.to_planet)
            /\ apc' = "call"
            /\ UNCHANGED response
    /\ planet_i' = 1
    /\ results' = NoResults
    /\ UNCHANGED <<data, conv_result, convVars, codecVars, testerVars>>

\* planet of the for loop, or to_planet of lines 469, 399: to_planets[0], or
\* to_planet_input itself when no entry is left, which is no body name
ToPlanet ==
    IF to_planets = <<>> THEN "" ELSE to_planets[planet_i]

\* lines 463-465, 470-472, 393-395, 400-402: perform_conversion is called
\* with the fields of the request and the planet of this turn
ApiCall ==
    /\ apc = "call"
    /\ req' = MkRequest(data.from_planet, ToPlanet, data.date_str, data.time_str,
                        data.from_earth_timezone, data.to_earth_timezone,
                        data.from_planetary_longitude, data.to_planetary_longitude)
    /\ pc' = "start"
    /\ yd' = NoYearDay /\ intermediate' = NoneResult /\ earth_date' = NoDate
    /\ result' = NoneResult
    /\ apc' = "called"
    /\ UNCHANGED <<data, to_planets, planet_i, conv_result, results, response,
                   codecVars, testerVars>>

\* the call ends: conv_result is what it returned; an exception leaving it
\* ends the handler, and the framework answers with status 500
ApiReturn ==
    /\ apc = "called"
    /\ pc \in {"return", "raised"}
    /\ conv_result' = result
    /\ IF pc = "raised"
       THEN /\ apc' = "failed"
            /\ response' = [status |-> 500, result |-> NoneResult]
       ELSE /\ apc' = "store"
            /\ UNCHANGED response
    /\ UNCHANGED <<data, to_planets, planet_i, results, convVars, codecVars, testerVars>>

\* lines 466-467, 396-397: results[planet] = conv_result and the next
\* planet; lines 474, 404: the response carries results, or the one result
ApiStore ==
    /\ apc = "store"
    /\ IF Several
       THEN /\ results' = [p \in DOMAIN results \cup {ToPlanet} |->
                              IF p = ToPlanet THEN conv_result ELSE results[p]]
            /\ planet_i' = planet_i + 1
            /\ IF planet_i < Len(to_planets)
               THEN apc' = "call" /\ UNCHANGED response
               ELSE /\ apc' = "done"
                    /\ response' = [status |-> 200, result |-> results']
       ELSE /\ apc' = "done"
            /\ response' = [status |-> 200, result |-> conv_result]
            /\ UNCHANGED <<results, planet_i>>
    /\ UNCHANGED <<data, to_planets, conv_result, convVars, codecVars, testerVars>>

InitApi ==
    /\ \/ data = NoRequest
       \/ \E f \in {"Earth", "Mars", "Jupiter"}, t \in ToPlanetInputs :
            \E d \in ApiDates(f), ftz \in {"UTC", "America/New_York"},
               ttz \in {"UTC", "Mars/Olympus"}, fl \in {0, MARS_LONG_DIVISOR},
               tl \in {0, MARS_LONG_DIVISOR} :
               data = MkRequest(f, t, d, Midnight, ftz, ttz, fl, tl)
    /\ apc = "start"
    /\ to_planets = <<>> /\ planet_i = 0 /\ conv_result = NoneResult
    /\ results = NoResults /\ response = NoResponse
    /\ ConvIdle /\ CodecIdle /\ TesterIdle

NextApi ==
    ApiStart \/ ApiCall \/ ParseInput \/ Decode \/ Reparse \/ Encode \/ ApiReturn \/ ApiStore

SpecApi == InitApi /\ [][NextApi]_vars


(***************************************************************************)
(* APItester.py: index and the global history_cache.  The server handles   *)
(* each request in a thread of its own; a step is what one thread does     *)
(* with no other thread running in between.                                *)
(***************************************************************************)
MaxRequests == 4

\* requests handled at the same time
MaxThreads == 2

\* history_cache[:3]
HISTORY_LENGTH == 3

\* lines 224, 228, 231: the message of the request's branch.  result_str
\* carries the form fields and the result of the request.
Messages(h) ==
    {<<"result of request", h>>, <<"Conversion failed.">>,
     <<"Please enter both date and time.">>}

NoMessage == <<>>

MkHandler(method, tpc, message) ==
    [method |-> method, tpc |-> tpc, message |-> message, sliced |-> <<>>,
     rendered |-> <<>>, seen |-> 0]

\* the steps a request has ahead: a POST inserts, a GET only renders
FirstStep(method) == IF method = "POST" THEN "insert" ELSE "render"

\* the requests whose thread has not returned
Running == {h \in DOMAIN handler : handler[h].tpc # "done"}

\* lines 187-224: a request arrives, and its thread runs up to the branch
\* that holds its message
Request ==
    /\ Len(handler) < MaxRequests
    /\ Cardinality(Running) < MaxThreads
    /\ \E method \in {"GET", "POST"} :
          \E message \in IF method = "POST" THEN Messages(Len(handler) + 1) ELSE {NoMessage} :
             handler' = Append(handler, MkHandler(method, FirstStep(method), message))
    /\ UNCHANGED <<history_cache, inserted, convVars, codecVars, apiVars>>

\* lines 225, 228, 231: history_cache.insert(0, ...) on the list the global
\* names
Insert ==
    \E h \in DOMAIN handler :
        /\ handler[h].tpc = "insert"
        /\ history_cache' = <<handler[h].message>> \o history_cache
        /\ inserted' = Append(inserted, handler[h].message)
        /\ handler' = [handler EXCEPT ![h].tpc = "slice"]
        /\ UNCHANGED <<convVars, codecVars, apiVars>>

\* history_cache[:3]
Truncated(list) ==
    SubSeq(list, 1, IF Len(list) < HISTORY_LENGTH THEN Len(list) ELSE HISTORY_LENGTH)

\* lines 226, 229, 232, right-hand side: a new list of the first three
\* entries
Slice ==
    \E h \in DOMAIN handler :
        /\ handler[h].tpc = "slice"
        /\ handler' = [handler EXCEPT ![h].sliced = Truncated(history_cache),
                                      ![h].tpc = "store"]
        /\ UNCHANGED <<history_cache, inserted, convVars, codecVars, apiVars>>

\* lines 226, 229, 232, assignment: the global names the new list
Store ==
    \E h \in DOMAIN handler :
        /\ handler[h].tpc = "store"
        /\ history_cache' = handler[h].sliced
        /\ handler' = [handler EXCEPT ![h].tpc = "render"]
        /\ UNCHANGED <<inserted, convVars, codecVars, apiVars>>

\* lines 234-243: the page shows the list the global names; seen counts the
\* insert calls made so far
Render ==
    \E h \in DOMAIN handler :
        /\ handler[h].tpc = "render"
        /\ handler' = [handler EXCEPT ![h].rendered = history_cache,
                                      ![h].seen = Len(inserted), ![h].tpc = "done"]
        /\ UNCHANGED <<history_cache, inserted, convVars, codecVars, apiVars>>

InitTester == ConvIdle /\ CodecIdle /\ ApiIdle /\ TesterIdle

NextTester == Request \/ Insert \/ Slice \/ Store \/ Render

SpecTester == InitTester /\ [][NextTester]_vars

(***************************************************************************)
(* Properties of the encoders and decoders (SpecCodec).                    *)
(***************************************************************************)
Abs(n) == IF n < 0 THEN -n ELSE n

\* seconds from the reference epoch of a wall-clock time in UTC
SecondsOf(wall) == wall.day * SECONDS_PER_DAY + wall.sod

\* the local-day index of printed fields
YearDays(body) ==
    CASE body = "Mars" -> MARS_YEAR_SOLS
      [] body = "Phobos" -> PHOBOS_YEAR_DAYS
      [] body = "Saturn" -> SATURN_YEAR_DAYS

DayCount(body, f) == f.year * YearDays(body) + (f.day - 1)

\* <<year, day, hour, minute, second>> compared lexicographically
RECURSIVE LexLeq(_, _)
LexLeq(a, b) ==
    IF a = <<>> THEN TRUE
    ELSE IF Head(a) # Head(b) THEN Head(a) < Head(b)
    ELSE LexLeq(Tail(a), Tail(b))

FieldTuple(f) == <<f.year, f.day, f.hour, f.minute, f.second>>

BothEncoded == cpc \in {"second", "decoded"}

C8_LongitudeShiftsHour ==
    (BothEncoded /\ probe.body = "Mars" /\ probe.T2 = probe.T
                 /\ probe.L2 = probe.L + MARS_LONG_DIVISOR) =>
        LET f1 == StampFields("Mars", enc1.text)
            f2 == StampFields("Mars", enc2.text)
        IN /\ f2.minute = f1.minute
           /\ f2.second = f1.second
           /\ \/ f2.hour = f1.hour + 1 /\ DayCount("Mars", f2) = DayCount("Mars", f1)
              \/ /\ f1.hour = MARS_HOURS_PER_DAY - 1 /\ f2.hour = 0
                 /\ DayCount("Mars", f2) = DayCount("Mars", f1) + 1

\* C9: for each of Mars, Phobos and Saturn at a fixed longitude, a later
\* instant never prints a smaller <<year, day, hour, minute, second>>
\* (compared lexicographically) than an earlier one, also across the epoch
\* and across sol and year rollovers.
C9_Monotone ==
    (BothEncoded /\ probe.L2 = probe.L /\ probe.T <= probe.T2) =>
        LexLeq(FieldTuple(StampFields(probe.body, enc1.text)),
               FieldTuple(StampFields(probe.body, enc2.text)))

\* two Mars instants one second apart, before the epoch, have been encoded
\* and the printed year advanced between them
C9_Witness ==
    /\ BothEncoded /\ probe.body = "Mars" /\ probe.L2 = probe.L
    /\ probe.T2 = probe.T + 1 /\ probe.T2 < 0
    /\ StampFields("Mars", enc1.text).year < StampFields("Mars", enc2.text).year

(***************************************************************************)
(* Properties of perform_conversion (Spec).                                *)
(***************************************************************************)
\* the call has ended: it returned, or an exception left it
Done == pc \in {"return", "raised"}

HoursPerDay(body) ==
    CASE body = "Mars" -> MARS_HOURS_PER_DAY
      [] body = "Phobos" -> PHOBOS_HOURS_PER_DAY
      [] body = "Saturn" -> SATURN_HOURS_PER_DAY

\* the planetary date is two integers and the time three
PlanetSyntaxOK == ParseYearDay(req.date_str).ok /\ ParseClock(req.time_str).ok

\* the numbers of a planetary input
InputFields ==
    LET p == ParseYearDay(req.date_str)
        c == ParseClock(req.time_str)
    IN [year |-> p.year, day |-> p.day, hour |-> c.hour, minute |-> c.minute,
        second |-> c.second]

\* a well-formed input of the source body: for Earth a date and time that
\* strptime accepts in a known zone, otherwise integers with the day in the
\* body's year, the hour in its day, minute and second below 60, and a year
\* whose Earth date is representable
WellFormedInput ==
    IF req.from_planet = "Earth"
    THEN ParseEarth(req.date_str, req.time_str, req.from_earth_timezone).ok
    ELSE /\ PlanetSyntaxOK
         /\ InputFields.year \in -MaxYear..MaxYear
         /\ InputFields.day \in 1..YearDays(req.from_planet)
         /\ InputFields.hour \in 0..HoursPerDay(req.from_planet) - 1
         /\ InputFields.minute \in 0..59
         /\ InputFields.second \in 0..59

InputString == req.date_str \o <<" ">> \o req.time_str


\* C1: for each of Earth, Mars, Phobos and Saturn, converting a well-formed
\* timestamp of the body to the same body, with the source's timezone or
\* longitude also given for the destination, returns a timestamp with the
\* same date and time as the input (the same reading for Earth; the same
\* day index, hour, minute and second otherwise).
C1_SameBodyNoOp ==
    (Done /\ SameBody /\ req.from_planet \in Bodies /\ WellFormedInput
          /\ req.from_earth_timezone = req.to_earth_timezone
          /\ req.from_planetary_longitude = req.to_planetary_longitude) =>
        /\ result.kind = "text"
        /\ IF req.from_planet = "Earth"
           THEN /\ Strptime(result.text).ok
                /\ Strptime(result.text).wall = Strptime(InputString).wall
           ELSE LET out == StampFields(req.from_planet, result.text)
                IN /\ DayCount(req.from_planet, out) = DayCount(req.from_planet, InputFields)
                   /\ out.hour = InputFields.hour
                   /\ out.minute = InputFields.minute
                   /\ out.second = InputFields.second

\* C3: for every source and destination among Earth, Mars, Phobos and
\* Saturn and every well-formed input, perform_conversion returns a
\* timestamp of the destination; it never answers that the conversion is
\* not supported.
C3_EveryPairConvertible ==
    (pc = "return" /\ req.from_planet \in Bodies /\ req.to_planet \in Bodies
        /\ WellFormedInput /\ req.to_earth_timezone \in KnownZones) =>
        result.kind = "text"

\* C4: whatever the body names, date, time, timezone names and longitudes,
\* perform_conversion returns a result; no exception leaves the call.
C4_NeverRaises == pc # "raised"

\* C5: when the source or the destination is not one of Earth, Mars, Phobos
\* and Saturn, perform_conversion returns an error value: one of its
\* messages, not None and not a timestamp.
C5_UnknownBodyIsError ==
    (Done /\ (req.from_planet \notin Bodies \/ req.to_planet \notin Bodies)) =>
        result.kind \in {"error", "unsupported"}

\* C6: for a source among Mars, Phobos and Saturn and any destination among
\* the four bodies, a date that is not two '/'-separated integers or a time
\* that is not three ':'-separated integers makes perform_conversion return
\* one of its parse or conversion error messages.
C6_MalformedPlanetaryIsError ==
    (Done /\ req.from_planet \in NonEarth /\ req.to_planet \in Bodies /\ ~PlanetSyntaxOK) =>
        result.kind = "error"

\* C7: Earth 01/01/2025 00:00:00 UTC converted at longitude 0 gives Mars
\* year 0, sol 1 at 01:03:05 (the reference offset of 3885 seconds in
\* 3700-second hours), and day 1 at 00:00:00 on Phobos and on Saturn.
C7_EpochAnchoring ==
    (Done /\ req.from_planet = "Earth" /\ req.to_planet \in NonEarth
          /\ req.date_str = EpochDate /\ req.time_str = Midnight
          /\ req.from_earth_timezone = "UTC" /\ req.to_planetary_longitude = 0) =>
        /\ result.kind = "text"
        /\ LET out == StampFields(req.to_planet, result.text)
               ref == IF req.to_planet = "Mars" THEN MARS_REF_OFFSET_SECONDS ELSE 0
           IN /\ DayCount(req.to_planet, out) = 0
              /\ out.hour = ref \div MARS_HOUR_LENGTH
              /\ out.minute = (ref % MARS_HOUR_LENGTH) \div 60
              /\ out.second = ref % 60

\* the offsets a zone can show on a wall-clock reading: every offset that is
\* in force at the instant it makes of the reading, and the one utcoffset
\* reports for the reading
OffsetsOn(tz, wall) ==
    {o \in {0, NY_STD, NY_DST} : UtcOffsetAt(tz, TimePlus(wall, -o)) = o}
    \cup {UtcOffsetWall(tz, wall)}

\* C10: an Earth to Earth conversion of a date and time that strptime
\* accepts, between known zones, returns dd/mm/yyyy HH:MM:SS of the same
\* instant: the output reading minus the destination's offset is the input
\* reading minus the source's offset; and 01/01/2025 00:00:00 UTC gives
\* 31/12/2024 19:00:00 in America/New_York.
C10_EarthToEarthSameInstant ==
    (pc = "return" /\ req.from_planet = "Earth" /\ req.to_planet = "Earth"
        /\ WellFormedInput /\ req.to_earth_timezone \in KnownZones) =>
        /\ result.kind = "text"
        /\ LET in  == Strptime(InputString).wall
               out == Strptime(result.text)
           IN /\ out.ok /\ Len(result.text) = 19
              /\ \E o \in OffsetsOn(req.to_earth_timezone, out.wall) :
                    TimePlus(out.wall, -o)
                        = TimePlus(in, -UtcOffsetWall(req.from_earth_timezone, in))
        /\ (req.date_str = EpochDate /\ req.time_str = Midnight
               /\ req.from_earth_timezone = "UTC"
               /\ req.to_earth_timezone = "America/New_York") =>
              result.text = <<"3", "1", "/", "1", "2", "/", "2", "0", "2", "4", " ", "1", "9", ":", "0", "0", ":", "0", "0">>

\* the epoch in UTC has been converted to America/New_York
C10_Witness ==
    /\ pc = "return" /\ req.from_planet = "Earth" /\ req.to_planet = "Earth"
    /\ req.date_str = EpochDate /\ req.time_str = Midnight
    /\ req.from_earth_timezone = "UTC" /\ req.to_earth_timezone = "America/New_York"
    /\ result.kind = "text"

(***************************************************************************)
(* Properties of index and convert_api (SpecApi).                          *)
(***************************************************************************)
\* a call of perform_conversion has just ended
Called == apc \in {"store", "failed"}

\* the values a call may carry in a field that its bodies do not use
AnyZone(used, given) == IF used THEN {given} ELSE Zones
AnyLongitude(used, given) == IF used THEN {given} ELSE Longitudes

\* C11: the result of perform_conversion does not depend on
\* from_earth_timezone when the source is not Earth, on to_earth_timezone when
\* the destination is not Earth, on from_planetary_longitude when the source
\* is Earth, or on to_planetary_longitude when the destination is Earth:
\* every call that differs from the one made only in such fields returns
\* what the one made returned.
C11_IrrelevantFieldsIgnored ==
    Called =>
        \A ftz \in AnyZone(data.from_planet = "Earth", data.from_earth_timezone),
           ttz \in AnyZone(ToPlanet = "Earth", data.to_earth_timezone),
           fl \in AnyLongitude(data.from_planet # "Earth", data.from_planetary_longitude),
           tl \in AnyLongitude(ToPlanet # "Earth", data.to_planetary_longitude) :
           perform_conversion(data.from_planet, ToPlanet, data.date_str, data.time_str,
                              ftz, ttz, fl, tl) = conv_result

\* a Mars to Mars call that carried a timezone for each side and returned a
\* Mars timestamp
C11_Witness ==
    /\ Called
    /\ data.from_planet = "Mars" /\ ToPlanet = "Mars"
    /\ data.from_earth_timezone = "America/New_York"
    /\ data.to_earth_timezone = "Mars/Olympus"
    /\ conv_result.kind = "text"

\* what a request for the one destination p returns
SingleResult(p) ==
    perform_conversion(data.from_planet, p, data.date_str, data.time_str,
                       data.from_earth_timezone, data.to_earth_timezone,
                       data.from_planetary_longitude, data.to_planetary_longitude)

\* the response maps p to the result single
HasEntry(p, single) ==
    /\ response.status = 200
    /\ p \in DOMAIN response.result
    /\ response.result[p] = single

\* C12: when a request naming several destinations has been handled, the
\* response has an entry for every requested destination, and the entry is
\* what a single-destination request with the same source, date, time and
\* auxiliary fields returns for it, whatever the other destinations gave.
C12_FanOut ==
    apc \in {"done", "failed"} /\ Several =>
        \A i \in 1..Len(to_planets) :
            SingleResult(to_planets[i]).kind # "raised"
                => HasEntry(to_planets[i], SingleResult(to_planets[i]))


(***************************************************************************)
(* Properties of the encoders before the epoch and of the printed clock    *)
(* (SpecCodec).                                                            *)
(***************************************************************************)
SolSeconds(body) ==
    CASE body = "Mars" -> SOL_SECONDS
      [] body = "Phobos" -> PHOBOS_SOL_SECONDS
      [] body = "Saturn" -> SATURN_SOL_SECONDS

LongDivisor(body) ==
    CASE body = "Mars" -> MARS_LONG_DIVISOR
      [] body = "Phobos" -> PHOBOS_LONG_DIVISOR
      [] body = "Saturn" -> SATURN_LONG_DIVISOR

\* seconds added to the elapsed time: line 170 for Mars, none at lines 223
\* and 273
RefOffset(body) == IF body = "Mars" THEN MARS_REF_OFFSET_SECONDS ELSE 0

\* the floor of the adjusted local-day total
\* (T + offset) / sol_seconds + (L / long_divisor) / hours_per_day, as a
\* quotient of integers
FloorDays(body, T, L) ==
    ((T + RefOffset(body)) * LongDivisor(body) * HoursPerDay(body) + L * SolSeconds(body))
        \div (SolSeconds(body) * LongDivisor(body) * HoursPerDay(body))

FirstEncoded == cpc \in {"first", "second", "decoded"}

\* C13: for every instant, before the epoch too, the day count an encoder
\* prints is the floor of the adjusted local-day total, the day of the year
\* of Mars and Saturn (Phobos prints no year) is in 1..year_length_days, and
\* the time of day printed with it is not negative.
C13_FloorBeforeEpoch ==
    FirstEncoded =>
        LET floored(f) ==
                /\ DayCount(probe.body, f) = FloorDays(probe.body, probe.T, probe.L)
                /\ probe.body # "Phobos" => f.day \in 1..YearDays(probe.body)
                /\ f.hour >= 0 /\ f.minute >= 0 /\ f.second >= 0
        IN floored(StampFields(probe.body, enc1.text))



\* C15: for every instant and longitude, each encoder prints an hour in
\* 0..hours_per_day - 1, a minute in 0..59 and a second in 0..59.
C15_ClockInRange ==
    FirstEncoded =>
        LET in_range(f) ==
                /\ f.hour \in 0..(HoursPerDay(probe.body) - 1)
                /\ f.minute \in 0..59
                /\ f.second \in 0..59
        IN in_range(StampFields(probe.body, enc1.text))

(***************************************************************************)
(* Properties of the decoders on clock fields out of range (Spec).         *)
(***************************************************************************)
\* hour, minute and second are integers, of any value
ThreeIntegers(time_str) ==
    LET integers(parts) == Len(parts) = 3 /\ \A i \in 1..3 : ParseInt(parts[i]).ok
    IN integers(Split(time_str, ":"))

\* the decoder of the source body has run on integer fields and returned
DecoderReturned ==
    /\ req.from_planet \in NonEarth
    /\ ParseYearDay(req.date_str).ok /\ ThreeIntegers(req.time_str)
    /\ \/ SameBody /\ pc = "reparse"
       \/ req.from_planet = "Mars" /\ req.to_planet = "Earth" /\ pc = "return"

\* what it returned
DecoderOutput == IF pc = "reparse" THEN intermediate ELSE result

HourLength(body) == SolSeconds(body) \div HoursPerDay(body)

\* hour * hour_length + minute * 60 + second
ClockSeconds(body, c) == c.hour * HourLength(body) + c.minute * 60 + c.second

\* the fields with the same day_index * sol_seconds + hour * hour_length +
\* minute * 60 + second whose clock is within the day: the whole days of
\* the clock are carried into the day index, the hour is in
\* 0..hours_per_day - 1, the minute below hour_length / 60, the second
\* below 60
CanonicalFields(body, year, day, c) ==
    LET fields(days, rest) ==
            [year |-> days \div YearDays(body),
             day |-> (days % YearDays(body)) + 1,
             hour |-> rest \div HourLength(body),
             minute |-> (rest % HourLength(body)) \div 60,
             second |-> (rest % HourLength(body)) % 60]
    IN fields(DayCount(body, [year |-> year, day |-> day])
                  + (ClockSeconds(body, c) \div SolSeconds(body)),
              ClockSeconds(body, c) % SolSeconds(body))

\* the decoder on the canonical fields of the request's sum
CanonicalDecode ==
    LET decode(f) ==
            DecodeBody(req.from_planet, f.year, f.day, FormatClock(f),
                       req.from_planetary_longitude,
                       DecodeZone(req.from_planet, req.to_planet, req.to_earth_timezone))
    IN decode(CanonicalFields(req.from_planet, yd.year, yd.day, ParseClock(req.time_str)))

OutOfRange(body, c) ==
    \/ c.hour \notin 0..(HoursPerDay(body) - 1)
    \/ c.minute \notin 0..59
    \/ c.second \notin 0..59

\* C14: the decoders of Mars, Phobos and Saturn take any integer hour,
\* minute and second without an error string, and what they return depends
\* only on day_index * sol_seconds + hour * hour_length + minute * 60 +
\* second: it is what they return for the in-range fields with the same sum,
\* so Mars day d at 24:00:00 decodes as day d + 1 at 00:00:00.
C14_LinearOverflow ==
    DecoderReturned => DecoderOutput.kind # "error" /\ DecoderOutput = CanonicalDecode

\* Mars 0/01 at 24:00:00 has been decoded to an Earth date, the one of Mars
\* 0/02 at 00:00:00
C14_Witness ==
    /\ DecoderReturned /\ req.from_planet = "Mars" /\ req.to_planet = "Earth"
    /\ yd = [year |-> 0, day |-> 1]
    /\ ParseClock(req.time_str).hour = MARS_HOURS_PER_DAY
    /\ OutOfRange("Mars", ParseClock(req.time_str))
    /\ result.kind = "text"
    /\ result = DecodeBody("Mars", 0, 2, Midnight, req.from_planetary_longitude, req.to_earth_timezone)


(***************************************************************************)
(* Properties of the history of APItester.py (SpecTester).                 *)
(***************************************************************************)
\* the page of a handled request has at most three entries, and the message
\* of the latest insert call is its first
RenderedBounded ==
    \A h \in DOMAIN handler :
        handler[h].tpc = "done" =>
            /\ Len(handler[h].rendered) <= HISTORY_LENGTH
            /\ handler[h].seen > 0 =>
                  /\ handler[h].rendered # <<>>
                  /\ handler[h].rendered[1] = inserted[handler[h].seen]

\* a step of a GET request changes neither the list nor the global
GetLeavesHistory ==
    \A h \in DOMAIN handler :
        (handler[h].method = "GET" /\ handler'[h] # handler[h])
            => history_cache' = history_cache

\* C16: after any sequence of requests, and however the threads of
\* concurrently handled POST requests interleave their insert, truncate and
\* render steps, the history a handler renders has at most 3 entries with
\* the most recent message first, and a GET request leaves the history
\* unchanged.
C16_BoundedHistory == []RenderedBounded /\ [][GetLeavesHistory]_vars

=============================================================================
